---- MODULE Spec2Model ----
(***************************************************************************)
(* A model of fits_to_stamps.py: the trim selector (trim_image), the       *)
(* contrast scaler (zscale_image / clipped_linscale_img), the region       *)
(* extractor (img_to_stamps), the mosaic compositor (the tail of           *)
(* fits_to_zscaled_stamps) and the batch runner (parallel_fits_worker and  *)
(* the directory branch of main).                                          *)
(*                                                                         *)
(* Arithmetic is Python 3's: "/" is true division (the int() calls around  *)
(* the slice bounds of img_to_stamps are there for that reason) and int()  *)
(* truncates towards zero.  Numbers that may be fractions are kept as      *)
(* pairs <<numerator, denominator>>.                                       *)
(***************************************************************************)
EXTENDS Integers, Sequences, FiniteSets, TLC

VARIABLES
    \* ---- trim selector ----
    fits_img,         \* the array read from the file
    fits_hdr,         \* its header: a function from the keys present to their values
    trimkeys,         \* the candidate keys, in order
    custombox,        \* the explicit box, or NoneVal
    trimmed_img,      \* what trim_image returned (an array, NoneVal, or an exception)
    tpc,              \* where the trim step stands
    \* ---- contrast scaler ----
    img_array,        \* the samples of the array handed to zscale_image, flattened
    scaled_vals,      \* what ZScaleInterval().get_limits returned, or NoneVal
    scaled_out,       \* what clipped_linscale_img returned, or NoneVal
    cpc,              \* where the scaling step stands
    \* ---- region extractor and mosaic compositor ----
    scaled_img,       \* the 2-D array handed to img_to_stamps
    stampsize,        \* --stampsize
    separatorwidth,   \* --separatorwidth
    image_stamps,     \* what img_to_stamps returned (NoneVal or the stamp dict)
    full_stamp,       \* the canvas, or NoneVal before it is built
    spc,              \* where fits_to_zscaled_stamps stands
    \* ---- batch runner ----
    dirfiles,         \* the names of the files in the target directory
    bad,              \* the files on which fits_to_zscaled_stamps raises
    nworkers,         \* --workers
    chunks,           \* the chunks of tasks pool.map has not handed out yet
    running,          \* per worker process: the rest of its chunk and its stage
    converted,        \* <<fits, png>>: the conversions that saved their PNG
    escaped,          \* the files whose exception left parallel_fits_worker
    exitcode,         \* the exit status of main, or NoneVal
    mpc               \* where main stands

stampVars == <<scaled_img, stampsize, separatorwidth, image_stamps, full_stamp, spc>>

trimVars == <<fits_img, fits_hdr, trimkeys, custombox, trimmed_img, tpc>>

scaleVars == <<img_array, scaled_vals, scaled_out, cpc>>

batchVars == <<dirfiles, bad, nworkers, chunks, running, converted, escaped, exitcode, mpc>>

vars == <<trimVars, scaleVars, stampVars, batchVars>>

----------------------------------------------------------------------------
(* Bounds of the model. *)

\* largest stamp size drawn; images go up to 3*MaxStamp + 1 on each axis
MaxStamp == 3
\* largest separator width drawn
MaxSep == 2
\* largest side of an image handed to trim_image
MaxTrimDim == 3
\* largest number written in a box
MaxCoord == 4
\* largest number of samples of an array handed to the scaler
MaxPix == 4
\* the number of samples the interval estimator looks at (astropy's default
\* is 1000; the model scales it down with the arrays)
NSamples == 2
\* the samples are integers from -MaxVal to MaxVal
MaxVal == 2
\* largest number of files in the target directory
MaxFiles == 5
\* largest number of worker processes
MaxWorkers == 2

----------------------------------------------------------------------------
(* Python and numpy helpers. *)

\* Python's None
NoneVal == [none |-> TRUE]

\* The parts of the program a specification does not run stay as they are here.
StampsIdle ==
    /\ scaled_img = NoneVal /\ stampsize = 0 /\ separatorwidth = 0
    /\ image_stamps = NoneVal /\ full_stamp = NoneVal /\ spc = "off"

ScaleIdle ==
    /\ img_array = <<>> /\ scaled_vals = NoneVal /\ scaled_out = NoneVal /\ cpc = "off"

BatchIdle ==
    /\ dirfiles = {} /\ bad = {} /\ nworkers = 0 /\ chunks = <<>> /\ running = <<>>
    /\ converted = {} /\ escaped = {} /\ exitcode = NoneVal /\ mpc = "off"

TrimIdle ==
    /\ fits_img = NoneVal /\ fits_hdr = NoneVal /\ trimkeys = <<>>
    /\ custombox = NoneVal /\ trimmed_img = NoneVal /\ tpc = "off"

Max(a, b) == IF a >= b THEN a ELSE b
Min(a, b) == IF a <= b THEN a ELSE b

\* a / b, Python 3 true division of two integers, as a fraction
TrueDiv(a, b) == <<a, b>>

\* p - q and p + q on fractions
RatSub(p, q) == <<p[1] * q[2] - q[1] * p[2], p[2] * q[2]>>
RatAdd(p, q) == <<p[1] * q[2] + q[1] * p[2], p[2] * q[2]>>

\* p >= n, for a fraction p with a positive denominator and an integer n
RatGeq(p, n) == p[1] >= n * p[2]

\* int(p): truncation towards zero (denominator positive)
PyInt(p) == IF p[1] >= 0 THEN p[1] \div p[2] ELSE -((-p[1]) \div p[2])

\* The index an explicit slice bound k stands for on an axis of length n
\* (slice.indices: negative bounds count from the end, all are clamped).
SliceBound(n, k) == IF k < 0 THEN Max(k + n, 0) ELSE Min(k, n)

\* A 2-D array is a record: its shape <<rows, columns>> and its cells, indexed
\* from 0.  a[r0:r1, c0:c1] with the bounds already resolved by SliceBound:
SubArray(a, r0, r1, c0, c1) ==
    LET h == Max(r1 - r0, 0)
        w == Max(c1 - c0, 0)
    IN  [shape |-> <<h, w>>,
         at    |-> [p \in (0 .. h - 1) \X (0 .. w - 1) |->
                        a.at[<<r0 + p[1], c0 + p[2]>>]]]

\* a[rs:re, cs:ce] for explicit (possibly negative) bounds
Slice2(a, rs, re, cs, ce) ==
    SubArray(a, SliceBound(a.shape[1], rs), SliceBound(a.shape[1], re),
                SliceBound(a.shape[2], cs), SliceBound(a.shape[2], ce))

\* The image before extraction: every cell holds its own position, so that a
\* stamp or a trimmed image shows which cells of the source it is made of.
PositionImage(h, w) ==
    [shape |-> <<h, w>>,
     at    |-> [p \in (0 .. h - 1) \X (0 .. w - 1) |-> p]]

\* An exception that left a function
Raised(kind) == [raised |-> kind]
IsRaised(v) == "raised" \in DOMAIN v
IsArray(v) == "shape" \in DOMAIN v

\* The pixel value 255.0 of a separator, kept apart from the position cells
SepCell == <<255>>

\* np.array([[255.0]*width]*height): a (height, width) block of separator cells
SepBlock(height, width) ==
    [shape |-> <<height, width>>,
     at    |-> [p \in (0 .. height - 1) \X (0 .. width - 1) |-> SepCell]]

\* np.array([255.0]*n) as np.vstack sees it (atleast_2d): one row of n cells
SepLine(n) == SepBlock(1, n)

\* np.hstack of two 2-D arrays: side by side, the row counts must agree
HStack2(a, b) ==
    IF IsRaised(a) THEN a
    ELSE IF IsRaised(b) THEN b
    ELSE IF a.shape[1] # b.shape[1] THEN Raised("ValueError")
    ELSE [shape |-> <<a.shape[1], a.shape[2] + b.shape[2]>>,
          at    |-> [p \in (0 .. a.shape[1] - 1) \X (0 .. a.shape[2] + b.shape[2] - 1) |->
                        IF p[2] < a.shape[2] THEN a.at[p]
                        ELSE b.at[<<p[1], p[2] - a.shape[2]>>]]]

\* np.vstack of two 2-D arrays: one above the other, the column counts must agree
VStack2(a, b) ==
    IF IsRaised(a) THEN a
    ELSE IF IsRaised(b) THEN b
    ELSE IF a.shape[2] # b.shape[2] THEN Raised("ValueError")
    ELSE [shape |-> <<a.shape[1] + b.shape[1], a.shape[2]>>,
          at    |-> [p \in (0 .. a.shape[1] + b.shape[1] - 1) \X (0 .. a.shape[2] - 1) |->
                        IF p[1] < a.shape[1] THEN a.at[p]
                        ELSE b.at[<<p[1] - a.shape[1], p[2]>>]]]

\* np.hstack and np.vstack of five pieces
HStack5(a, b, c, d, e) == HStack2(HStack2(HStack2(HStack2(a, b), c), d), e)
VStack5(a, b, c, d, e) == VStack2(VStack2(VStack2(VStack2(a, b), c), d), e)

\* np.flipud: the rows in reverse order
FlipUD(a) ==
    IF IsRaised(a) THEN a
    ELSE [shape |-> a.shape,
          at    |-> [p \in DOMAIN a.at |-> a.at[<<a.shape[1] - 1 - p[1], p[2]>>]]]

----------------------------------------------------------------------------
(* Strings are sequences of one-character strings. *)

DigitChars == <<"0", "1", "2", "3", "4", "5", "6", "7", "8", "9">>
Whitespace == {" "}

\* str(n) for n >= 0
RECURSIVE Digits(_)
Digits(n) ==
    IF n < 10 THEN <<DigitChars[n + 1]>>
    ELSE Digits(n \div 10) \o <<DigitChars[(n % 10) + 1]>>

\* a Python str: its characters
Str(chars) == [str |-> chars]

\* the header text "[a:b,c:d]"
BoxStr(a, b, c, d) ==
    Str(<<"[">> \o Digits(a) \o <<":">> \o Digits(b) \o <<",">>
               \o Digits(c) \o <<":">> \o Digits(d) \o <<"]">>)

\* s.strip(chars)
RECURSIVE LStrip(_, _)
LStrip(s, chars) ==
    IF s # <<>> /\ Head(s) \in chars THEN LStrip(Tail(s), chars) ELSE s

RECURSIVE RStrip(_, _)
RStrip(s, chars) ==
    IF s # <<>> /\ s[Len(s)] \in chars THEN RStrip(SubSeq(s, 1, Len(s) - 1), chars) ELSE s

Strip(s, chars) == RStrip(LStrip(s, chars), chars)

\* s.split(sep) for a one-character separator: always at least one piece
RECURSIVE Split(_, _)
Split(s, sep) ==
    IF \A i \in 1 .. Len(s) : s[i] # sep
    THEN <<s>>
    ELSE LET i == CHOOSE k \in 1 .. Len(s) : s[k] = sep /\ \A j \in 1 .. k - 1 : s[j] # sep
         IN  <<SubSeq(s, 1, i - 1)>> \o Split(SubSeq(s, i + 1, Len(s)), sep)

\* the value of a run of decimal digits
RECURSIVE DigitsValue(_)
DigitsValue(s) ==
    IF s = <<>> THEN 0
    ELSE 10 * DigitsValue(SubSeq(s, 1, Len(s) - 1))
         + ((CHOOSE k \in 1 .. 10 : DigitChars[k] = s[Len(s)]) - 1)

IsDigits(s) == s # <<>> /\ \A i \in 1 .. Len(s) : \E k \in 1 .. 10 : DigitChars[k] = s[i]

\* int(s): surrounding whitespace and one sign are accepted; anything else
\* is a ValueError
PyIntStr(s) ==
    LET t == Strip(s, Whitespace)
        signed == t # <<>> /\ Head(t) \in {"+", "-"}
        body == IF signed THEN Tail(t) ELSE t
    IN  IF ~IsDigits(body) THEN Raised("ValueError")
        ELSE [value |-> IF signed /\ Head(t) = "-" THEN -DigitsValue(body)
                        ELSE DigitsValue(body)]

\* [int(x) for x in piece.split(':')]: the list, or the first ValueError
IntList(piece) ==
    LET toks == Split(piece, ":")
    IN  IF \E i \in 1 .. Len(toks) : IsRaised(PyIntStr(toks[i]))
        THEN Raised("ValueError")
        ELSE [list |-> [i \in 1 .. Len(toks) |-> PyIntStr(toks[i]).value]]

----------------------------------------------------------------------------
(* trim_image *)

ZeroBox == BoxStr(0, 0, 0, 0)

\* the slicing with the two pairs taken in the other order
TrimSlice_rowsfirst(img, datasec_y, datasec_x) ==
    Slice2(img, datasec_y[1] - 1, datasec_y[2], datasec_x[1] - 1, datasec_x[2])

\* fits_img[datasec_x[0]-1:datasec_x[1], datasec_y[0]-1:datasec_y[1]]
TrimSlice(img, datasec_y, datasec_x) ==
    Slice2(img, datasec_x[1] - 1, datasec_x[2], datasec_y[1] - 1, datasec_y[2])

\* the body of "if trimsec and trimsec != '[0:0,0:0]'": only a ValueError is
\* caught, an IndexError leaves trim_image
ApplyTrimsec(img, trimsec) ==
    LET datasec == Split(Strip(trimsec.str, {"[", "]"}), ",")
        datasec_y == IntList(datasec[1])
        datasec_x == IntList(datasec[2])
    IN  IF IsRaised(datasec_y) THEN img
        ELSE IF Len(datasec) < 2 THEN Raised("IndexError")
        ELSE IF IsRaised(datasec_x) THEN img
        ELSE IF Len(datasec_x.list) < 2 \/ Len(datasec_y.list) < 2 THEN Raised("IndexError")
        ELSE TrimSlice(img, datasec_y.list, datasec_x.list)

\* a string is true when it is not empty; None is false
Truthy(v) == v # NoneVal /\ v # Str(<<>>)

\* the scan that passes over a key whose value is empty, '[0:0,0:0]' or does
\* not parse
RECURSIVE HeaderTrimsec_skipbad(_, _)
HeaderTrimsec_skipbad(keys, hdr) ==
    IF keys = <<>> THEN NoneVal
    ELSE IF /\ Head(keys) \in DOMAIN hdr
            /\ Truthy(hdr[Head(keys)]) /\ hdr[Head(keys)] # ZeroBox
            /\ LET datasec == Split(Strip(hdr[Head(keys)].str, {"[", "]"}), ",")
               IN  /\ Len(datasec) >= 2
                   /\ ~IsRaised(IntList(datasec[1])) /\ ~IsRaised(IntList(datasec[2]))
         THEN [found |-> hdr[Head(keys)]]
    ELSE HeaderTrimsec_skipbad(Tail(keys), hdr)

\* the for loop over trimkeys: the value of the first key that is present
\* (break), or NoneVal when the loop runs to its else clause
RECURSIVE HeaderTrimsec(_, _)
HeaderTrimsec(keys, hdr) ==
    IF keys = <<>> THEN NoneVal
    ELSE IF Head(keys) \in DOMAIN hdr THEN [found |-> hdr[Head(keys)]]
    ELSE HeaderTrimsec(Tail(keys), hdr)

trim_image(img, hdr, keys, box) ==
    LET found == HeaderTrimsec(keys, hdr)
        trimsec == IF Truthy(box) THEN box
                   ELSE IF found = NoneVal THEN NoneVal ELSE found.found
    IN  IF ~Truthy(box) /\ found = NoneVal /\ box = NoneVal
        THEN NoneVal                                  \* print(...); return
        ELSE IF Truthy(trimsec) /\ trimsec # ZeroBox
        THEN ApplyTrimsec(img, trimsec)
        ELSE img

----------------------------------------------------------------------------
(* trim_image on every image, header, candidate list and box within the    *)
(* bounds, followed by the next line of fits_to_zscaled_stamps.            *)

DefaultTrimKeys == <<"TRIMSEC", "DATASEC", "TRIMSEC0">>
TrimKeyLists == {DefaultTrimKeys, <<"DATASEC", "TRIMSEC">>}
HeaderKeys == {"TRIMSEC", "DATASEC", "TRIMSEC0"}

\* every box "[a:b,c:d]" of numbers up to MaxCoord
CoordBoxes ==
    {BoxStr(a, b, c, d) : a \in 0 .. MaxCoord, b \in 0 .. MaxCoord,
                          c \in 0 .. MaxCoord, d \in 0 .. MaxCoord}

\* header values that are not a box of four integers
BadToken == Str(<<"[", "x", ":", "2", ",", "1", ":", "3", "]">>)      \* "[x:2,1:3]"
BadSecond == Str(<<"[", "1", ":", "2", ",", "1", ":", "y", "]">>)     \* "[1:2,1:y]"
NoComma == Str(<<"[", "1", ":", "2", "]">>)                           \* "[1:2]"
NoColon == Str(<<"[", "1", ",", "2", "]">>)                           \* "[1,2]"
MalformedBoxes == {BadToken, BadSecond, NoComma, NoColon}

\* boxes of four integers written with a sign or with blanks
SignedBox == Str(<<"[", "-", "1", ":", "2", ",", "+", "1", ":", "3", "]">>)  \* "[-1:2,+1:3]"
BlankBox == Str(<<"[", " ", "1", ":", "2", ",", "2", ":", "3", " ", "]">>)   \* "[ 1:2,2:3 ]"

\* the values a header key takes when several keys are present
HdrValues == {BoxStr(1, 2, 1, 3), BoxStr(2, 3, 1, 2), ZeroBox, Str(<<>>)}
                 \cup {BadToken, NoComma}

Headers ==
    UNION {[ks -> HdrValues] : ks \in SUBSET HeaderKeys}

TrimInit ==
    /\ StampsIdle /\ ScaleIdle /\ BatchIdle
    /\ \E h \in 1 .. MaxTrimDim, w \in 1 .. MaxTrimDim : fits_img = PositionImage(h, w)
    /\ \/ \* the pipeline's call: no explicit box, any header
          /\ custombox = NoneVal
          /\ fits_hdr \in Headers
          /\ trimkeys \in TrimKeyLists
       \/ \* the pipeline's call on a header with one key, any value
          /\ custombox = NoneVal
          /\ \E k \in HeaderKeys,
                v \in CoordBoxes \cup MalformedBoxes \cup {SignedBox, BlankBox} :
                fits_hdr = [x \in {k} |-> v]
          /\ trimkeys = DefaultTrimKeys
       \/ \* a direct call with an explicit box
          /\ custombox \in {BoxStr(1, 2, 1, 3), BoxStr(3, 4, 2, 2), ZeroBox, Str(<<>>),
                            BadToken, NoComma}
          /\ fits_hdr \in {[x \in {} |-> ZeroBox], [x \in {"DATASEC"} |-> BoxStr(2, 3, 1, 2)]}
          /\ trimkeys = DefaultTrimKeys
    /\ trimmed_img = NoneVal
    /\ tpc = "call"

\* trimmed_img = trim_image(img, hdr, trimkeys, custombox)
TrimImage ==
    /\ tpc = "call"
    /\ trimmed_img' = trim_image(fits_img, fits_hdr, trimkeys, custombox)
    /\ tpc' = IF IsRaised(trimmed_img') THEN "raised" ELSE "returned"
    /\ UNCHANGED <<fits_img, fits_hdr, trimkeys, custombox>>
    /\ UNCHANGED <<scaleVars, stampVars, batchVars>>

\* scaled_img = zscale_image(trimmed_img): None is no array, the estimator
\* and np.median raise a TypeError on it
ZscaleTrimmed ==
    /\ tpc = "returned"
    /\ tpc' = IF trimmed_img = NoneVal THEN "raised" ELSE "scaled"
    /\ UNCHANGED <<fits_img, fits_hdr, trimkeys, custombox, trimmed_img>>
    /\ UNCHANGED <<scaleVars, stampVars, batchVars>>

TrimNext == TrimImage \/ ZscaleTrimmed

SpecTrim == TrimInit /\ [][TrimNext]_vars

----------------------------------------------------------------------------
(* zscale_image and clipped_linscale_img.  A pixel value is a fraction       *)
(* <<numerator, denominator>> with a positive denominator, or the result of *)
(* a floating-point division by zero.                                       *)

RatOf(n) == <<n, 1>>
RatLeq(p, q) == p[1] * q[2] <= q[1] * p[2]
RatMax(p, q) == IF RatLeq(p, q) THEN q ELSE p
RatMin(p, q) == IF RatLeq(p, q) THEN p ELSE q

NaN == [nan |-> TRUE]
Inf(sign) == [inf |-> sign]
Finite(p) == [num |-> p[1], den |-> p[2]]

\* c * p / q in IEEE arithmetic: a zero divisor gives nan (0/0) or an
\* infinity and a RuntimeWarning, no exception
ScaleDiv(c, p, q) ==
    IF q[1] = 0
    THEN IF c * p[1] = 0 THEN NaN ELSE Inf(IF c * p[1] > 0 THEN 1 ELSE -1)
    ELSE IF q[1] > 0 THEN Finite(<<c * p[1] * q[2], p[2] * q[1]>>)
    ELSE Finite(<<-(c * p[1] * q[2]), p[2] * (-q[1])>>)

\* the k-th smallest sample (k from 1)
KthSmallest(arr, k) ==
    CHOOSE v \in {arr[i] : i \in 1 .. Len(arr)} :
        /\ Cardinality({i \in 1 .. Len(arr) : arr[i] < v}) < k
        /\ Cardinality({i \in 1 .. Len(arr) : arr[i] <= v}) >= k

\* np.median: the middle sample, or the mean of the two middle samples
Median(arr) ==
    LET n == Len(arr)
    IN  IF n % 2 = 1 THEN RatOf(KthSmallest(arr, (n + 1) \div 2))
        ELSE <<KthSmallest(arr, n \div 2) + KthSmallest(arr, (n \div 2) + 1), 2>>

\* np.clip(x, a_min, a_max) = minimum(maximum(x, a_min), a_max)
Clip(x, amin, amax) == RatMin(RatMax(x, amin), amax)

\* cap * np.clip(img_array, img_med - lo, img_med + hi) / (img_med + hi)
clipped_linscale_img(arr, lo, hi, cap) ==
    LET img_med == Median(arr)
        low == RatSub(img_med, RatOf(lo))
        high == RatAdd(img_med, RatOf(hi))
    IN  [i \in 1 .. Len(arr) |-> ScaleDiv(cap, Clip(RatOf(arr[i]), low, high), high)]

\* the default cap of clipped_linscale_img
Cap == 255

ArrMin(arr) == CHOOSE v \in {arr[i] : i \in 1 .. Len(arr)} : \A i \in 1 .. Len(arr) : v <= arr[i]
ArrMax(arr) == CHOOSE v \in {arr[i] : i \in 1 .. Len(arr)} : \A i \in 1 .. Len(arr) : v >= arr[i]

\* ZScaleInterval().get_limits(imgarr) is astropy's.  It looks at
\* values[::stride][:nsamples] with stride = int(max(1.0, size/nsamples)):
ZSamples(arr) ==
    LET stride == Max(1, Len(arr) \div NSamples)
        count == Min(NSamples, (Len(arr) + stride - 1) \div stride)
    IN  [k \in 1 .. count |-> arr[(k - 1) * stride + 1]]

\* and returns (vmin, vmax) around the median of those samples, neither beyond
\* their extremes: min <= vmin <= median <= vmax <= max.  The model lets it
\* return any such pair of integers.
ZScaleLimits(arr) ==
    LET s == ZSamples(arr)
    IN  {lim \in (ArrMin(s) .. ArrMax(s)) \X (ArrMin(s) .. ArrMax(s)) :
            /\ RatLeq(RatOf(lim[1]), Median(s))
            /\ RatLeq(Median(s), RatOf(lim[2]))}

Samples ==
    UNION {[1 .. n -> (-MaxVal) .. MaxVal] : n \in 1 .. MaxPix}

ScaleInit ==
    /\ TrimIdle /\ StampsIdle /\ BatchIdle
    /\ img_array \in Samples
    /\ scaled_vals = NoneVal
    /\ scaled_out = NoneVal
    /\ cpc = "start"

\* scaled_vals = zscaler.get_limits(imgarr)
GetLimits ==
    /\ cpc = "start"
    /\ \E lim \in ZScaleLimits(img_array) : scaled_vals' = [lo |-> lim[1], hi |-> lim[2]]
    /\ cpc' = "limits"
    /\ UNCHANGED <<img_array, scaled_out>>
    /\ UNCHANGED <<trimVars, stampVars, batchVars>>

\* return clipped_linscale_img(imgarr, scaled_vals[0], scaled_vals[1])
ClippedLinscale ==
    /\ cpc = "limits"
    /\ scaled_out' = clipped_linscale_img(img_array, scaled_vals.lo, scaled_vals.hi, Cap)
    /\ cpc' = "scaled"
    /\ UNCHANGED <<img_array, scaled_vals>>
    /\ UNCHANGED <<trimVars, stampVars, batchVars>>

\* the rest of fits_to_zscaled_stamps on the scaled array (of an image large
\* enough for its stamps): stamps, canvas, Image.fromarray(...).convert('L')
\* and save(outfile); nothing looks at the values
SaveScaled ==
    /\ cpc = "scaled"
    /\ cpc' = "written"
    /\ UNCHANGED <<img_array, scaled_vals, scaled_out>>
    /\ UNCHANGED <<trimVars, stampVars, batchVars>>

ScaleNext == GetLimits \/ ClippedLinscale \/ SaveScaled

SpecScale == ScaleInit /\ [][ScaleNext]_vars

----------------------------------------------------------------------------
(* Properties of the contrast scaler (SpecScale). *)

\* img_med + hi of the run
Denominator == RatAdd(Median(img_array), RatOf(scaled_vals.hi))

IsFinite(v) == "num" \in DOMAIN v

\* C4: when median(array) + hi = 0 the scaler reports a failure: it returns
\* no array and the pipeline writes no pixel data.
C4_ZeroDenominatorFails ==
    (cpc \in {"limits", "scaled", "written"} /\ Denominator[1] = 0) =>
        cpc \notin {"scaled", "written"}

\* C5: when median(array) + hi # 0 every value returned lies in [0, cap].
C5_OutputWithinCap ==
    (cpc \in {"scaled", "written"} /\ Denominator[1] # 0) =>
        \A i \in 1 .. Len(scaled_out) :
            /\ IsFinite(scaled_out[i])
            /\ 0 <= scaled_out[i].num
            /\ scaled_out[i].num <= Cap * scaled_out[i].den

----------------------------------------------------------------------------
(* img_to_stamps *)

StampNames == {"topleft", "topcenter", "topright", "midleft", "midcenter",
               "midright", "bottomleft", "bottomcenter", "bottomright"}

\* the test with ">" in place of ">="
CanStamp_strict(imgsizex, imgsizey, size) ==
    /\ imgsizex > 3 * size
    /\ imgsizey > 3 * size

\* (n_possible_xstamps >= 3) and (n_possible_ystamps >= 3), with
\* n_possible_xstamps = imgsizex/float(xstampsize)
CanStamp(imgsizex, imgsizey, size) ==
    /\ RatGeq(TrueDiv(imgsizex, size), 3)
    /\ RatGeq(TrueDiv(imgsizey, size), 3)

\* the lower bound with each division floored on its own
CenterLo_floor(imgsize, size) == (imgsize \div 2) - (size \div 2)

\* int(imgsize/2 - stampsize/2) and int(imgsize/2 + stampsize/2)
CenterLo(imgsize, size) == PyInt(RatSub(TrueDiv(imgsize, 2), TrueDiv(size, 2)))
CenterHi(imgsize, size) == PyInt(RatAdd(TrueDiv(imgsize, 2), TrueDiv(size, 2)))

img_to_stamps(img, size) ==
    LET imgsizex == img.shape[1]
        imgsizey == img.shape[2]
        xlo == CenterLo(imgsizex, size)
        xhi == CenterHi(imgsizex, size)
        ylo == CenterLo(imgsizey, size)
        yhi == CenterHi(imgsizey, size)
    IN  IF CanStamp(imgsizex, imgsizey, size)
        THEN [topleft      |-> Slice2(img, 0, size, 0, size),
              topcenter    |-> Slice2(img, xlo, xhi, 0, size),
              topright     |-> Slice2(img, imgsizex - size, imgsizex, 0, size),
              midleft      |-> Slice2(img, 0, size, ylo, yhi),
              midcenter    |-> Slice2(img, xlo, xhi, ylo, yhi),
              midright     |-> Slice2(img, imgsizex - size, imgsizex, ylo, yhi),
              bottomleft   |-> Slice2(img, 0, size, imgsizey - size, imgsizey),
              bottomcenter |-> Slice2(img, xlo, xhi, imgsizey - size, imgsizey),
              bottomright  |-> Slice2(img, -size, imgsizex, -size, imgsizey)]
        ELSE NoneVal

----------------------------------------------------------------------------
(* The compositor: fits_to_zscaled_stamps from image_stamps['topright'] on. *)

ComposeCanvas(stamps, sep) ==
    IF stamps = NoneVal
    THEN Raised("TypeError")          \* None['topright']
    ELSE
    LET toprow_xsize == stamps.topright.shape[1]
        toprow_ysize == stamps.topright.shape[2]
        toprow_separr == SepBlock(toprow_ysize, sep)
        toprow_stamp == HStack5(stamps.topleft, toprow_separr, stamps.midleft,
                                toprow_separr, stamps.bottomleft)
        midrow_xsize == stamps.midright.shape[1]
        midrow_ysize == stamps.midright.shape[2]
        midrow_separr == SepBlock(midrow_ysize, sep)
        midrow_stamp == HStack5(stamps.topcenter, midrow_separr, stamps.midcenter,
                                midrow_separr, stamps.bottomcenter)
        bottomrow_ysize == stamps.bottomright.shape[2]
        bottomrow_separr == SepBlock(bottomrow_ysize, sep)
        bottomrow_stamp == HStack5(stamps.topright, bottomrow_separr, stamps.midright,
                                   bottomrow_separr, stamps.bottomright)
    IN  FlipUD(VStack5(toprow_stamp,
                       SepLine(toprow_xsize * 3 + sep * 2),
                       midrow_stamp,
                       SepLine(midrow_xsize * 3 + sep * 2),
                       bottomrow_stamp))

----------------------------------------------------------------------------
(* The extraction and composition steps of fits_to_zscaled_stamps, run on    *)
(* every image shape, stamp size and separator width within the bounds.     *)

MaxImg == 3 * MaxStamp + 1

StampsInit ==
    /\ TrimIdle /\ ScaleIdle /\ BatchIdle
    /\ \E h \in 1 .. MaxImg, w \in 1 .. MaxImg : scaled_img = PositionImage(h, w)
    /\ stampsize \in 1 .. MaxStamp
    /\ separatorwidth \in 0 .. MaxSep
    /\ image_stamps = NoneVal
    /\ full_stamp = NoneVal
    /\ spc = "scaled"

\* image_stamps = img_to_stamps(scaled_img, stampsize=stampsize)
ExtractStamps ==
    /\ spc = "scaled"
    /\ image_stamps' = img_to_stamps(scaled_img, stampsize)
    /\ spc' = "stamped"
    /\ UNCHANGED <<scaled_img, stampsize, separatorwidth, full_stamp>>
    /\ UNCHANGED <<trimVars, scaleVars, batchVars>>

\* the stacking and the flip; an exception leaves fits_to_zscaled_stamps
ComposeMosaic ==
    /\ spc = "stamped"
    /\ full_stamp' = ComposeCanvas(image_stamps, separatorwidth)
    /\ spc' = IF IsRaised(full_stamp') THEN "raised" ELSE "composed"
    /\ UNCHANGED <<scaled_img, stampsize, separatorwidth, image_stamps>>
    /\ UNCHANGED <<trimVars, scaleVars, batchVars>>

\* Image.fromarray(full_stamp).convert('L').save(outfile); return outfile
SavePng ==
    /\ spc = "composed"
    /\ spc' = "saved"
    /\ UNCHANGED <<scaled_img, stampsize, separatorwidth, image_stamps, full_stamp>>
    /\ UNCHANGED <<trimVars, scaleVars, batchVars>>

StampsNext == ExtractStamps \/ ComposeMosaic \/ SavePng

SpecStamps == StampsInit /\ [][StampsNext]_vars

----------------------------------------------------------------------------
(* Paths, the glob and os.path.splitext.  A path is its directory and its   *)
(* base name; a name is a sequence of characters.                           *)

\* whether pat occurs in s at position i
OccursAt(s, pat, i) ==
    /\ i + Len(pat) - 1 <= Len(s)
    /\ \A k \in 1 .. Len(pat) : s[i + k - 1] = pat[k]

\* the default --fitsglob, '*.fits*': the names that hold ".fits"; glob leaves
\* out the names that start with a dot
FitsGlobMatches(name) ==
    /\ name # <<>> /\ name[1] # "."
    /\ \E i \in 1 .. Len(name) : OccursAt(name, <<".", "f", "i", "t", "s">>, i)

\* os.path.splitext(name)[0]: the name up to its last dot, when a character
\* other than a dot stands before that dot; else the whole name
SplitextRoot(name) ==
    LET dots == {i \in 1 .. Len(name) : name[i] = "."}
        dotIndex == CHOOSE i \in dots : \A j \in dots : j <= i
    IN  IF dots = {} THEN name
        ELSE IF \E j \in 1 .. dotIndex - 1 : name[j] # "." THEN SubSeq(name, 1, dotIndex - 1)
        ELSE name

\* os.path.join(target, name), as its two parts
Path(dir, base) == [dir |-> dir, base |-> base]

\* outpng = os.path.splitext(os.path.basename(fits))[0] + '.png'
\* outpngpath = os.path.join(os.path.dirname(fits), outpng)
OutPngPath(fits) == Path(fits.dir, SplitextRoot(fits.base) \o <<".", "p", "n", "g">>)

\* a set of paths as a list, in one order (glob returns the directory's)
RECURSIVE ListOf(_)
ListOf(S) ==
    IF S = {} THEN <<>>
    ELSE LET x == CHOOSE y \in S : TRUE
         IN  <<x>> \o ListOf(S \ {x})

----------------------------------------------------------------------------
(* parallel_fits_worker *)

\* the conversion specifiers of the except clause's message and the values
\* given to it: 'could not convert %s to stamp PNG: %s, error was: %r' % (fits, e)
HandlerSpecifiers == 3
HandlerValues == 2

\* format % values: a TypeError unless each specifier has its value
PercentFormat(specifiers, values) ==
    IF specifiers = values THEN NoneVal ELSE Raised("TypeError")

\* what parallel_fits_worker(task) does when fits_to_zscaled_stamps returns
\* (raises = FALSE) or raises an Exception (raises = TRUE): the value returned,
\* or the exception that leaves the function
parallel_fits_worker(fits, raises) ==
    IF ~raises THEN [returned |-> OutPngPath(fits)]
    ELSE IF IsRaised(PercentFormat(HandlerSpecifiers, HandlerValues))
         THEN PercentFormat(HandlerSpecifiers, HandlerValues)
         ELSE [returned |-> NoneVal]

----------------------------------------------------------------------------
(* The directory branch of main: glob, pool.map over the worker processes,  *)
(* exit.                                                                     *)

TargetDir == "target"

N_a_fits == <<"a", ".", "f", "i", "t", "s">>
N_b_fits == <<"b", ".", "f", "i", "t", "s">>
N_a_fits_fz == <<"a", ".", "f", "i", "t", "s", ".", "f", "z">>
N_a_fits_gz == <<"a", ".", "f", "i", "t", "s", ".", "g", "z">>
N_b_fits_fz == <<"b", ".", "f", "i", "t", "s", ".", "f", "z">>
N_a_txt == <<"a", ".", "t", "x", "t">>
N_dot_fits == <<".", "f", "i", "t", "s">>

FileNames == {N_a_fits, N_b_fits, N_a_fits_fz, N_a_fits_gz, N_b_fits_fz, N_a_txt, N_dot_fits}

\* fits = glob.glob(os.path.join(args.target, args.fitsglob))
GlobFits(names) == {Path(TargetDir, n) : n \in {m \in names : FitsGlobMatches(m)}}

\* pool.map's chunks: chunksize, extra = divmod(len(tasks), workers * 4), one
\* more when extra is not 0; the tasks are cut into runs of chunksize
ChunkSize(ntasks, workers) ==
    IF ntasks % (workers * 4) = 0 THEN ntasks \div (workers * 4)
    ELSE (ntasks \div (workers * 4)) + 1

RECURSIVE ChunksOf(_, _)
ChunksOf(tasks, size) ==
    IF tasks = <<>> THEN <<>>
    ELSE IF Len(tasks) <= size THEN <<tasks>>
    ELSE <<SubSeq(tasks, 1, size)>> \o ChunksOf(SubSeq(tasks, size + 1, Len(tasks)), size)

IdleWorker == [stage |-> "idle", todo |-> <<>>, out |-> NoneVal]

BatchInit ==
    /\ TrimIdle /\ ScaleIdle /\ StampsIdle
    /\ dirfiles \in {fs \in SUBSET FileNames : Cardinality(fs) <= MaxFiles}
    /\ bad \in SUBSET GlobFits(dirfiles)
    /\ nworkers \in 1 .. MaxWorkers
    /\ chunks = <<>>
    /\ running = [w \in 1 .. nworkers |-> IdleWorker]
    /\ converted = {}
    /\ escaped = {}
    /\ exitcode = NoneVal
    /\ mpc = "start"

\* the directory branch up to pool.map: the glob, the task list, the pool, and
\* the chunks put on the pool's task queue
MainGlobAndMap ==
    /\ mpc = "start"
    /\ LET fits == ListOf(GlobFits(dirfiles))
       IN  chunks' = ChunksOf(fits, ChunkSize(Len(fits), nworkers))
    /\ mpc' = "mapping"
    /\ UNCHANGED <<dirfiles, bad, nworkers, running, converted, escaped, exitcode>>
    /\ UNCHANGED <<trimVars, scaleVars, stampVars>>

\* a worker process takes the next chunk from the queue
TakeChunk(w) ==
    /\ mpc = "mapping"
    /\ running[w].stage = "idle"
    /\ chunks # <<>>
    /\ running' = [running EXCEPT ![w] = [stage |-> "ready", todo |-> Head(chunks), out |-> NoneVal]]
    /\ chunks' = Tail(chunks)
    /\ UNCHANGED <<dirfiles, bad, nworkers, converted, escaped, exitcode, mpc>>
    /\ UNCHANGED <<trimVars, scaleVars, stampVars>>

\* parallel_fits_worker on the next task of the chunk, up to the call of
\* fits_to_zscaled_stamps(fits, outpngpath, **options)
StartConvert(w) ==
    /\ running[w].stage = "ready"
    /\ running' = [running EXCEPT ![w].stage = "converting",
                                  ![w].out = OutPngPath(Head(running[w].todo))]
    /\ UNCHANGED <<dirfiles, bad, nworkers, chunks, converted, escaped, exitcode, mpc>>
    /\ UNCHANGED <<trimVars, scaleVars, stampVars>>

\* fits_to_zscaled_stamps ends and parallel_fits_worker with it.  It saves the
\* PNG and returns, or it raises; an exception that leaves parallel_fits_worker
\* ends the chunk (the rest of it is not run) and pool.map keeps it to raise.
FinishConvert(w) ==
    /\ running[w].stage = "converting"
    /\ LET fits == Head(running[w].todo)
           res == parallel_fits_worker(fits, fits \in bad)
           rest == IF IsRaised(res) THEN <<>> ELSE Tail(running[w].todo)
       IN  /\ converted' = IF fits \in bad THEN converted
                           ELSE converted \cup {<<fits, running[w].out>>}
           /\ escaped' = IF IsRaised(res) THEN escaped \cup {fits} ELSE escaped
           /\ running' = [running EXCEPT ![w] =
                             IF rest = <<>> THEN IdleWorker
                             ELSE [stage |-> "ready", todo |-> rest, out |-> NoneVal]]
    /\ UNCHANGED <<dirfiles, bad, nworkers, chunks, exitcode, mpc>>
    /\ UNCHANGED <<trimVars, scaleVars, stampVars>>

\* pool.map returns when every chunk is done: it raises the exception it kept,
\* which ends main with a traceback and status 1; else pool.close(),
\* pool.join() and sys.exit(0)
MainMapReturns ==
    /\ mpc = "mapping"
    /\ chunks = <<>>
    /\ \A w \in 1 .. nworkers : running[w].stage = "idle"
    /\ exitcode' = IF escaped # {} THEN 1 ELSE 0
    /\ mpc' = "exited"
    /\ UNCHANGED <<dirfiles, bad, nworkers, chunks, running, converted, escaped>>
    /\ UNCHANGED <<trimVars, scaleVars, stampVars>>

BatchNext ==
    \/ MainGlobAndMap
    \/ MainMapReturns
    \/ \E w \in 1 .. nworkers : TakeChunk(w)
    \/ \E w \in 1 .. nworkers : StartConvert(w)
    \/ \E w \in 1 .. nworkers : FinishConvert(w)

SpecBatch == BatchInit /\ [][BatchNext]_vars

----------------------------------------------------------------------------
(* Properties of the batch runner (SpecBatch). *)

\* C1: an exception of a conversion is caught inside parallel_fits_worker: it
\* never leaves the worker, every other file is converted, and the run ends
\* with exit code 0.
C1_FailuresStayInWorker ==
    /\ escaped = {}
    /\ mpc = "exited" =>
          /\ exitcode = 0
          /\ \A f \in GlobFits(dirfiles) \ bad : \E c \in converted : c[1] = f

\* the conversions under way: <<fits, png>>
InProgress ==
    {<<Head(running[w].todo), running[w].out>> :
        w \in {v \in 1 .. nworkers : running[v].stage = "converting"}}

\* C10: no two conversions of distinct input files write the same PNG path.
C10_DistinctOutputPaths ==
    \A c1 \in converted \cup InProgress, c2 \in converted \cup InProgress :
        c1[1] # c2[1] => c1[2] # c2[2]

----------------------------------------------------------------------------
(* Properties of trim_image (SpecTrim). *)

\* array st is made of the rows lo .. hi-1 of the image, in order
RowsAre(st, lo, hi) ==
    /\ st.shape[1] = hi - lo
    /\ \A p \in DOMAIN st.at : st.at[p][1] = lo + p[1]

\* array st is made of the columns lo .. hi-1 of the image, in order
ColsAre(st, lo, hi) ==
    /\ st.shape[2] = hi - lo
    /\ \A p \in DOMAIN st.at : st.at[p][2] = lo + p[2]

TrimDone == tpc \in {"returned", "raised", "scaled"}

KeyPresent(i) == trimkeys[i] \in DOMAIN fits_hdr
NoCandidatePresent == \A i \in 1 .. Len(trimkeys) : ~KeyPresent(i)

\* the position in trimkeys of the first candidate that is in the header
FirstPresent ==
    CHOOSE i \in 1 .. Len(trimkeys) : KeyPresent(i) /\ \A j \in 1 .. i - 1 : ~KeyPresent(j)
FirstPresentValue == fits_hdr[trimkeys[FirstPresent]]

\* the box trim_image is given: the explicit one, else the header's
GivenBox ==
    IF Truthy(custombox) THEN custombox
    ELSE IF NoCandidatePresent THEN NoneVal
    ELSE FirstPresentValue

\* the well-formed boxes of the model with the four integers each one writes
WellFormedCases ==
    {<<BoxStr(a, b, c, d), a, b, c, d>> : a \in 0 .. MaxCoord, b \in 0 .. MaxCoord,
                                          c \in 0 .. MaxCoord, d \in 0 .. MaxCoord}
    \cup {<<SignedBox, -1, 2, 1, 3>>, <<BlankBox, 1, 2, 2, 3>>}

\* C3: with no explicit box, when no candidate key is in the header or the
\* value found is malformed, trim_image raises nothing and returns the input
\* array, and the pipeline goes on with it.
C3_LenientTrim ==
    (TrimDone /\ custombox = NoneVal
        /\ (NoCandidatePresent \/ FirstPresentValue \in MalformedBoxes)) =>
        /\ tpc # "raised"
        /\ trimmed_img = fits_img

\* C7 as amended: for a well-formed box "[a:b,c:d]" other than "[0:0,0:0]",
\* trim_image returns array[c-1:d, a-1:b]: the SECOND pair selects the rows
\* (axis 0) and the FIRST pair the columns (axis 1); 1 is subtracted from each
\* lower bound only.  For a box inside the image these are the rows c-1 .. d-1
\* and the columns a-1 .. b-1.
C7_SecondPairSelectsRows ==
    TrimDone =>
    LET given == GivenBox
    IN  \A q \in WellFormedCases :
        (given = q[1] /\ q[1] # ZeroBox) =>
            /\ trimmed_img = Slice2(fits_img, q[4] - 1, q[5], q[2] - 1, q[3])
            /\ (/\ 1 <= q[4] /\ q[4] <= q[5] /\ q[5] <= fits_img.shape[1]
                /\ 1 <= q[2] /\ q[2] <= q[3] /\ q[3] <= fits_img.shape[2]) =>
                   /\ RowsAre(trimmed_img, q[4] - 1, q[5])
                   /\ ColsAre(trimmed_img, q[2] - 1, q[3])

\* a 3x3 image was trimmed by the header box "[1:2,1:3]" to 3 rows of 2 columns
C7_Witness ==
    /\ tpc = "returned" /\ custombox = NoneVal
    /\ ~NoCandidatePresent /\ FirstPresentValue = BoxStr(1, 2, 1, 3)
    /\ fits_img.shape = <<3, 3>>
    /\ trimmed_img.shape = <<3, 2>>

\* C7 as stated: the first pair selects the rows and the second the columns,
\* array[a-1:b, c-1:d].
C7_FirstPairSelectsRows ==
    TrimDone =>
    LET given == GivenBox
    IN  \A q \in WellFormedCases :
        (given = q[1] /\ q[1] # ZeroBox) =>
            trimmed_img = Slice2(fits_img, q[2] - 1, q[3], q[4] - 1, q[5])

\* what trim_image makes of one box value
OutcomeOfValue(v) ==
    IF Truthy(v) /\ v # ZeroBox THEN ApplyTrimsec(fits_img, v) ELSE fits_img

\* C9 as amended: with no explicit box, trim_image uses the value of the first
\* candidate key present in the header, well-formed or not, and consults no
\* later key; when that value is empty, "[0:0,0:0]" or malformed the image is
\* never trimmed by a later key's box: it is returned untrimmed, or an
\* IndexError leaves trim_image.
C9_FirstPresentKeyWins ==
    (TrimDone /\ ~Truthy(custombox) /\ ~NoCandidatePresent) =>
        /\ trimmed_img = OutcomeOfValue(FirstPresentValue)
        /\ FirstPresentValue \in MalformedBoxes \cup {ZeroBox, Str(<<>>)} =>
              trimmed_img \in {fits_img, Raised("IndexError")}

\* the first candidate present is malformed, a later one is well-formed, and
\* the 3x3 image came back untrimmed
C9_Witness ==
    /\ tpc = "returned" /\ custombox = NoneVal /\ trimkeys = DefaultTrimKeys
    /\ DOMAIN fits_hdr = {"TRIMSEC", "DATASEC"}
    /\ fits_hdr["TRIMSEC"] = BadToken /\ fits_hdr["DATASEC"] = BoxStr(1, 2, 1, 3)
    /\ fits_img.shape = <<3, 3>> /\ trimmed_img = fits_img

\* a candidate that is present with a box of four integers other than
\* "[0:0,0:0]"
KeyUsable(i) ==
    /\ KeyPresent(i)
    /\ fits_hdr[trimkeys[i]] # ZeroBox
    /\ \E q \in WellFormedCases : q[1] = fits_hdr[trimkeys[i]]

\* C9 as stated: the keys are tried until one is present and well-formed, so
\* a malformed or "[0:0,0:0]" earlier key gives way to a later well-formed one.
C9_TriedUntilWellFormed ==
    \A i \in 1 .. Len(trimkeys) :
        (/\ TrimDone /\ custombox = NoneVal
         /\ KeyUsable(i)
         /\ \A j \in 1 .. i - 1 : ~KeyUsable(j)
         /\ \E j \in 1 .. i - 1 :
               KeyPresent(j) /\ fits_hdr[trimkeys[j]] \in MalformedBoxes \cup {ZeroBox}) =>
            trimmed_img = ApplyTrimsec(fits_img, fits_hdr[trimkeys[i]])

----------------------------------------------------------------------------
(* Properties of the extractor and the compositor (SpecStamps). *)

ImgH == scaled_img.shape[1]
ImgW == scaled_img.shape[2]
Extracted == spc \in {"stamped", "composed", "saved", "raised"}

\* C2: the canvas built from the nine stamps has shape
\* (3*S + 2*sep, 3*S + 2*sep) for every separator width sep >= 0.
C2_CanvasShape ==
    spc \in {"composed", "saved"} =>
        full_stamp.shape = <<3 * stampsize + 2 * separatorwidth,
                             3 * stampsize + 2 * separatorwidth>>

\* C6: img_to_stamps returns a stamp set exactly when H >= 3*S and W >= 3*S,
\* and then it holds the nine named stamps, each of shape (S, S).
C6_NineSquareStamps ==
    Extracted =>
        /\ (image_stamps # NoneVal) <=> (ImgH >= 3 * stampsize /\ ImgW >= 3 * stampsize)
        /\ image_stamps # NoneVal =>
              /\ DOMAIN image_stamps = StampNames
              /\ \A n \in StampNames : image_stamps[n].shape = <<stampsize, stampsize>>

\* stamps were cut with an odd stamp size from an image with one odd and one
\* even side
C6_Witness ==
    /\ spc = "stamped" /\ image_stamps # NoneVal
    /\ stampsize = 3 /\ ImgH = 9 /\ ImgW = 10

\* C8 as amended: the centre-relative stamps use rows floor((H-S)/2) up to
\* floor((H+S)/2) and columns floor((W-S)/2) up to floor((W+S)/2): the halves
\* are subtracted or added first and the result is truncated once.
C8_CenterRangeTruncatedOnce ==
    (Extracted /\ image_stamps # NoneVal) =>
        /\ \A n \in {"topcenter", "midcenter", "bottomcenter"} :
              RowsAre(image_stamps[n], (ImgH - stampsize) \div 2, (ImgH + stampsize) \div 2)
        /\ \A n \in {"midleft", "midcenter", "midright"} :
              ColsAre(image_stamps[n], (ImgW - stampsize) \div 2, (ImgW + stampsize) \div 2)

\* centre stamps cut with an odd stamp size
C8_Witness ==
    /\ spc = "stamped" /\ image_stamps # NoneVal
    /\ stampsize = 1 /\ ImgH = 6 /\ ImgW = 7

\* C8 as stated: each division is floored on its own, so the ranges run from
\* (H div 2) - (S div 2) to (H div 2) + (S div 2).
C8_CenterRangeFlooredEach ==
    (Extracted /\ image_stamps # NoneVal) =>
        /\ \A n \in {"topcenter", "midcenter", "bottomcenter"} :
              RowsAre(image_stamps[n], (ImgH \div 2) - (stampsize \div 2),
                                       (ImgH \div 2) + (stampsize \div 2))
        /\ \A n \in {"midleft", "midcenter", "midright"} :
              ColsAre(image_stamps[n], (ImgW \div 2) - (stampsize \div 2),
                                       (ImgW \div 2) + (stampsize \div 2))

====
